---- MODULE Spec2Model ----
(***************************************************************************)
(* Model of bedrock_invoke.py: main() reads its configuration, optionally  *)
(* verifies the inference profile, tries bedrock-runtime.converse, falls   *)
(* back to bedrock-runtime.invoke_model and ends with diagnostics.         *)
(*                                                                         *)
(* Text is a sequence of code points, bytes a sequence of integers 0..255. *)
(* A printed item is one call of print()/eprint(): a fixed line is a       *)
(* sequence of string tokens, a computed argument is a data record.        *)
(***************************************************************************)
EXTENDS Integers, Sequences, FiniteSets, TLC

VARIABLES env, arn, region, clients, calls, stdout, stderr, exitCode, pc,
          verifyOut, converseOut, invokeOut, stsOut

vars == <<env, arn, region, clients, calls, stdout, stderr, exitCode, pc,
          verifyOut, converseOut, invokeOut, stsOut>>

\* ---------------------------------------------------------------- bounds
\* longest content list of a converse response
MaxParts == 2
\* longest payload (bytes or characters) of an invoke_model response
MaxPayload == 2

\* ------------------------------------------------------------ environment
\* os.getenv returns None for a variable that is not set
None == "<None>"
ArnValuesPrimary == {None, "", "arn:A"}
ArnValuesFallback == {None, "arn:B"}
DEFAULT_REGION == "us-east-1"
RegionValues == {None, "eu-west-1", DEFAULT_REGION}

\* Python truthiness of an Optional[str]
Truthy(s) == s # None /\ s # ""

\* a or b
PyOr(a, b) == IF Truthy(a) THEN a ELSE b

ResolveArnDefaulted(e) ==
    LET a == PyOr(e.BEDROCK_INFERENCE_PROFILE_ARN, e.INFERENCE_PROFILE_ARN)
    IN IF Truthy(a) THEN a ELSE "arn:default"
\* line 14
ResolveArn(e) == PyOr(e.BEDROCK_INFERENCE_PROFILE_ARN, e.INFERENCE_PROFILE_ARN)

\* ------------------------------------------------------------ printed items
NoResp == [outputKind |-> "none", messageKind |-> "missing", content |-> <<>>]
NoData == [t |-> "none", text |-> <<>>, resp |-> NoResp, exc |-> "", region |-> "", arn |-> ""]

Line(toks) == [line |-> toks, data |-> NoData]
TextItem(txt) == [line |-> <<>>, data |-> [NoData EXCEPT !.t = "text", !.text = txt]]
\* json.dumps(resp, indent=2, default=str)
JsonResp(r) == [line |-> <<>>, data |-> [NoData EXCEPT !.t = "json_response", !.resp = r]]
\* json.dumps(prof.get("inferenceProfile", prof), indent=2, default=str)
JsonProfile(a) == [line |-> <<>>, data |-> [NoData EXCEPT !.t = "json_profile", !.arn = a]]
\* json.dumps({"caller": ident, "region": region, "inference_profile_arn": arn}, indent=2)
JsonIdentity(r, a) == [line |-> <<>>, data |-> [NoData EXCEPT !.t = "json_identity", !.region = r, !.arn = a]]
\* str(e) of a ClientError, repr(e) of any other exception
ExcStr(e) == [line |-> <<>>, data |-> [NoData EXCEPT !.t = "str_exc", !.exc = e]]
ExcRepr(e) == [line |-> <<>>, data |-> [NoData EXCEPT !.t = "repr_exc", !.exc = e]]
\* the interpreter's report of an exception that leaves main
Traceback(e) == [line |-> <<"Traceback (most recent call last):">>,
                 data |-> [NoData EXCEPT !.t = "traceback", !.exc = e]]

ERR_ARN_1 == Line(<<"ERROR: ", "BEDROCK_INFERENCE_PROFILE_ARN", " env var is not set.">>)
ERR_ARN_2 == Line(<<"Set it, then re-run. Example:">>)
ERR_ARN_3 == Line(<<"  export ", "BEDROCK_INFERENCE_PROFILE_ARN", "=arn:aws:bedrock:", "us-east-1",
                    ":123456789012:inference-profile/my-profile">>)
WARN_REGION == Line(<<"WARNING: ", "No AWS region configured in your environment. Falling back to ",
                      "us-east-1", ".">>)
MSG_VERIFIED == Line(<<"Verified inference profile:">>)
MSG_SKIP == Line(<<"SDK does not expose get_inference_profile; skipping profile pre-check.">>)
WARN_PROFILE == Line(<<"WARN: ", "Could not describe the inference profile (may be a permissions or SDK-version issue):">>)
MSG_TRY_CONVERSE == Line(<<"\nAttempting bedrock-runtime.converse via inference profile ARN ...">>)
MSG_CONVERSE == Line(<<"Converse response:">>)
ERR_CONVERSE_FAILED == Line(<<"Converse attempt failed:">>)
ERR_CONVERSE_ERROR == Line(<<"Converse attempt error:">>)
MSG_TRY_INVOKE == Line(<<"\nAttempting bedrock-runtime.invoke_model with Anthropic-style payload ...">>)
MSG_INVOKE == Line(<<"InvokeModel response:">>)
ERR_INVOKE_FAILED == Line(<<"InvokeModel attempt failed:">>)
ERR_INVOKE_ERROR == Line(<<"InvokeModel attempt error:">>)
BANNER == Line(<<"\nAll attempts failed. Diagnostics:">>)
CHECKLIST == Line(<<"Checklist: ",
    "\n- Ensure the ARN is correct and in this region.",
    "\n- Confirm IAM permissions: bedrock:InvokeModel and bedrock:Converse on the target inference profile or routed models.",
    "\n- Verify that the routed model for the profile supports the chosen API (Converse or Anthropic Messages).",
    "\n- Confirm VPC endpoints or network egress allow Bedrock access if using private networking.">>)

\* ------------------------------------------------------------ exceptions
\* botocore.exceptions.ClientError, and an exception of any other class that a
\* remote call raises (EndpointConnectionError, NoCredentialsError, ...)
ClientError == "ClientError"
BotoCoreError == "BotoCoreError"
RemoteErrors == {ClientError, BotoCoreError}
NoExc == "none"

Call(op, r, a) == [op |-> op, region |-> r, modelId |-> a]
NotCalled == [kind |-> "not_called"]

\* ------------------------------------------------------------ initial state
Init ==
    /\ env \in [BEDROCK_INFERENCE_PROFILE_ARN : ArnValuesPrimary,
                INFERENCE_PROFILE_ARN : ArnValuesFallback,
                region_name : RegionValues]
    /\ arn = None
    /\ region = None
    /\ clients = {}
    /\ calls = <<>>
    /\ stdout = <<>>
    /\ stderr = <<>>
    /\ exitCode = -1
    /\ pc = "start"
    /\ verifyOut = NotCalled
    /\ converseOut = NotCalled
    /\ invokeOut = NotCalled
    /\ stsOut = NotCalled

\* lines 14-22: the identifier is missing
FailFast ==
    /\ pc = "start"
    /\ ~Truthy(ResolveArn(env))
    /\ arn' = ResolveArn(env)
    /\ region' = env.region_name
    /\ stderr' = stderr \o <<ERR_ARN_1, ERR_ARN_2, ERR_ARN_3>>
    /\ exitCode' = 2
    /\ pc' = "done"
    /\ UNCHANGED <<env, clients, calls, stdout, verifyOut, converseOut, invokeOut, stsOut>>

\* lines 24-26: the region the session is built with, and the warning
RegionWarnNoSubstitute(r) == IF ~Truthy(r) THEN [region |-> r, warn |-> <<WARN_REGION>>]
                                          ELSE [region |-> r, warn |-> <<>>]
ResolveRegion(r) == IF ~Truthy(r) THEN [region |-> DEFAULT_REGION, warn |-> <<WARN_REGION>>]
                                  ELSE [region |-> r, warn |-> <<>>]

\* lines 14-30: the identifier is set; session and the two clients are built
Configure ==
    /\ pc = "start"
    /\ Truthy(ResolveArn(env))
    /\ arn' = ResolveArn(env)
    /\ LET rr == ResolveRegion(env.region_name) IN
        /\ region' = rr.region
        /\ stderr' = stderr \o rr.warn
        /\ clients' = clients \cup {[svc |-> "bedrock-runtime", region |-> rr.region],
                                    [svc |-> "bedrock", region |-> rr.region]}
    /\ pc' = "verify"
    /\ UNCHANGED <<env, calls, stdout, exitCode, verifyOut, converseOut, invokeOut, stsOut>>

\* ------------------------------------------------- step 2: verification
\* what bedrock_ctrl.get_inference_profile does in this run
VerifyOutcomes == {[kind |-> "no_attr"], [kind |-> "ok"],
                   [kind |-> "raise", exc |-> ClientError],
                   [kind |-> "raise", exc |-> BotoCoreError]}

\* line 41: the only except clause of the verification try
VerifyCatches(e) == e = ClientError

\* lines 33-43
VerifyProfile ==
    /\ pc = "verify"
    /\ \E o \in VerifyOutcomes :
        /\ verifyOut' = o
        /\ calls' = IF o.kind = "no_attr" THEN calls
                    ELSE Append(calls, Call("get_inference_profile", region, arn))
        /\ CASE o.kind = "no_attr" ->
                  /\ stdout' = Append(stdout, MSG_SKIP)
                  /\ UNCHANGED <<stderr, exitCode>>
                  /\ pc' = "converse"
             [] o.kind = "ok" ->
                  /\ stdout' = stdout \o <<MSG_VERIFIED, JsonProfile(arn)>>
                  /\ UNCHANGED <<stderr, exitCode>>
                  /\ pc' = "converse"
             [] o.kind = "raise" /\ VerifyCatches(o.exc) ->
                  /\ stderr' = stderr \o <<WARN_PROFILE, ExcStr(o.exc)>>
                  /\ UNCHANGED <<stdout, exitCode>>
                  /\ pc' = "converse"
             [] o.kind = "raise" /\ ~VerifyCatches(o.exc) ->
                  \* the exception leaves main: the interpreter prints the
                  \* traceback and the process ends with status 1
                  /\ stderr' = Append(stderr, Traceback(o.exc))
                  /\ exitCode' = 1
                  /\ pc' = "done"
                  /\ UNCHANGED stdout
    /\ UNCHANGED <<env, arn, region, clients, converseOut, invokeOut, stsOut>>

\* ------------------------------------------------- step 3: converse
\* a content entry: {"text": "<v>"}, {"text": 7} or an entry with no "text" key
Entries == {[k |-> "str", v |-> <<97>>], [k |-> "str", v |-> <<98>>],
            [k |-> "num", v |-> <<>>], [k |-> "other", v |-> <<>>]}

BSeq(S, n) == UNION {[1..m -> S] : m \in 0..n}

\* the responses converse may return: "output" missing, null, {} or a dict whose
\* "message" is missing, null or a dict with a "content" list
Responses ==
    {[outputKind |-> ok, messageKind |-> "missing", content |-> <<>>] :
        ok \in {"missing", "null", "empty"}}
    \cup {[outputKind |-> "dict", messageKind |-> mk, content |-> <<>>] :
        mk \in {"missing", "null"}}
    \cup {[outputKind |-> "dict", messageKind |-> "dict", content |-> c] :
        c \in BSeq(Entries, MaxParts)}

ConverseOutcomes == {[kind |-> "raise", exc |-> e, resp |-> NoResp] : e \in RemoteErrors}
                    \cup {[kind |-> "return", exc |-> NoExc, resp |-> r] : r \in Responses}

NL == 10

\* "\n".join(texts)
RECURSIVE JoinNl(_)
JoinNl(texts) ==
    IF texts = <<>> THEN <<>>
    ELSE IF Len(texts) = 1 THEN texts[1].v
    ELSE texts[1].v \o <<NL>> \o JoinNl(Tail(texts))

RECURSIVE TextsOfReversed(_)
TextsOfReversed(parts) ==
    IF parts = <<>> THEN <<>>
    ELSE IF Head(parts).k # "other" THEN TextsOfReversed(Tail(parts)) \o <<Head(parts)>>
    ELSE TextsOfReversed(Tail(parts))

\* lines 59-62: texts = [p["text"] for p in parts if "text" in p]
RECURSIVE TextsOf(_)
TextsOf(parts) ==
    IF parts = <<>> THEN <<>>
    ELSE IF Head(parts).k # "other" THEN <<Head(parts)>> \o TextsOf(Tail(parts))
    ELSE TextsOf(Tail(parts))

\* lines 53-64: what the handling of a returned response prints, and the
\* exception it raises, if any
HandleResponse(resp) ==
    IF resp.outputKind \in {"missing", "null", "empty"}
    THEN \* not output
         [out |-> <<JsonResp(resp)>>, exc |-> NoExc]
    ELSE IF resp.messageKind = "null"
    THEN \* None.get("content", [])
         [out |-> <<>>, exc |-> "AttributeError"]
    ELSE LET texts == TextsOf(resp.content) IN
         IF texts = <<>>
         THEN [out |-> <<MSG_CONVERSE, JsonResp(resp)>>, exc |-> NoExc]
         ELSE IF \E i \in 1..Len(texts) : texts[i].k # "str"
         THEN \* str.join of a non-string
              [out |-> <<MSG_CONVERSE>>, exc |-> "TypeError"]
         ELSE [out |-> <<MSG_CONVERSE, TextItem(JoinNl(texts))>>, exc |-> NoExc]

\* lines 65-71: a normal end of the try block returns from main
AfterConverseFallThrough(exc) == "invoke"
AfterConverse(exc) == IF exc = NoExc THEN "done" ELSE "invoke"

\* lines 46-71
TryConverse ==
    /\ pc = "converse"
    /\ \E o \in ConverseOutcomes :
        LET h == IF o.kind = "raise" THEN [out |-> <<>>, exc |-> o.exc]
                 ELSE HandleResponse(o.resp)
        IN
        /\ converseOut' = o
        /\ calls' = Append(calls, Call("converse", region, arn))
        /\ stdout' = stdout \o <<MSG_TRY_CONVERSE>> \o h.out
        /\ stderr' = stderr \o
                (IF h.exc = NoExc THEN <<>>
                 ELSE IF h.exc = ClientError THEN <<ERR_CONVERSE_FAILED, ExcStr(h.exc)>>
                 ELSE <<ERR_CONVERSE_ERROR, ExcRepr(h.exc)>>)
        /\ pc' = AfterConverse(h.exc)
        /\ exitCode' = IF AfterConverse(h.exc) = "done" THEN 0 ELSE exitCode
    /\ UNCHANGED <<env, arn, region, clients, verifyOut, invokeOut, stsOut>>

\* ------------------------------------------------- step 4: invoke_model
\* bytes and characters the payloads are built from: "H", the two bytes of
\* U+00E9 (0xC3 0xA9), which are invalid on their own, and U+00E9 itself
ByteValues == {72, 195, 169}
CharValues == {72, 233}

NoneData == [ty |-> "none", v |-> <<>>]
PayloadData == {[ty |-> "bytes", v |-> b] : b \in BSeq(ByteValues, MaxPayload)}
               \cup {[ty |-> "str", v |-> c] : c \in BSeq(CharValues, MaxPayload)}

\* resp.get("body"): no body, materialized bytes or string, or a stream-like
\* object whose read() returns the data or raises
Bodies == {[kind |-> "missing", readExc |-> NoExc, data |-> NoneData]}
          \cup {[kind |-> "raw", readExc |-> NoExc, data |-> d] : d \in PayloadData}
          \cup {[kind |-> "stream", readExc |-> NoExc, data |-> d] : d \in PayloadData}
          \cup {[kind |-> "stream", readExc |-> "ReadTimeoutError", data |-> NoneData]}

InvokeOutcomes == {[kind |-> "raise", exc |-> e, body |-> [kind |-> "none"]] : e \in RemoteErrors}
                  \cup {[kind |-> "return", exc |-> NoExc, body |-> b] : b \in Bodies}

IsCont(b) == b >= 128 /\ b <= 191

DecodeFailed == [ok |-> FALSE, text |-> <<>>]

RECURSIVE DecodeLatin1(_)
DecodeLatin1(b) ==
    IF b = <<>> THEN [ok |-> TRUE, text |-> <<>>]
    ELSE [ok |-> TRUE, text |-> <<Head(b)>> \o DecodeLatin1(Tail(b)).text]

\* bytes.decode("utf-8"), errors="strict": the text, or UnicodeDecodeError
RECURSIVE DecodeUtf8(_)
DecodeUtf8(b) ==
    IF b = <<>> THEN [ok |-> TRUE, text |-> <<>>]
    ELSE LET h == Head(b)
             n == IF h < 128 THEN 1
                  ELSE IF h >= 194 /\ h <= 223 THEN 2
                  ELSE IF h >= 224 /\ h <= 239 THEN 3
                  ELSE IF h >= 240 /\ h <= 244 THEN 4
                  ELSE 0
         IN IF n = 0 \/ Len(b) < n THEN DecodeFailed
            ELSE IF \E i \in 2..n : ~IsCont(b[i]) THEN DecodeFailed
            ELSE IF n = 3 /\ ((h = 224 /\ b[2] < 160) \/ (h = 237 /\ b[2] > 159)) THEN DecodeFailed
            ELSE IF n = 4 /\ ((h = 240 /\ b[2] < 144) \/ (h = 244 /\ b[2] > 143)) THEN DecodeFailed
            ELSE LET cp == CASE n = 1 -> h
                             [] n = 2 -> (h - 192) * 64 + (b[2] - 128)
                             [] n = 3 -> (h - 224) * 4096 + (b[2] - 128) * 64 + (b[3] - 128)
                             [] n = 4 -> (h - 240) * 262144 + (b[2] - 128) * 4096
                                         + (b[3] - 128) * 64 + (b[4] - 128)
                     rest == DecodeUtf8(SubSeq(b, n + 1, Len(b)))
                 IN IF rest.ok THEN [ok |-> TRUE, text |-> <<cp>> \o rest.text]
                    ELSE DecodeFailed

\* str(None)
STR_NONE == <<78, 111, 110, 101>>

ToTextLatin1(d) ==
    IF d.ty = "bytes" THEN DecodeLatin1(d.v)
    ELSE IF d.ty = "str" THEN [ok |-> TRUE, text |-> d.v]
    ELSE [ok |-> TRUE, text |-> STR_NONE]
\* line 96: data.decode("utf-8") if isinstance(data, (bytes, bytearray)) else str(data)
ToText(d) ==
    IF d.ty = "bytes" THEN DecodeUtf8(d.v)
    ELSE IF d.ty = "str" THEN [ok |-> TRUE, text |-> d.v]
    ELSE [ok |-> TRUE, text |-> STR_NONE]

\* lines 90-96: what the handling of a returned response prints, and the
\* exception it raises, if any
HandleBody(body) ==
    IF body.kind = "stream" /\ body.readExc # NoExc
    THEN [out |-> <<>>, exc |-> body.readExc]
    ELSE LET t == ToText(body.data) IN
         IF t.ok THEN [out |-> <<MSG_INVOKE, TextItem(t.text)>>, exc |-> NoExc]
         ELSE [out |-> <<MSG_INVOKE>>, exc |-> "UnicodeDecodeError"]

\* lines 97-103: a normal end of the try block returns from main
AfterInvokeFallThrough(exc) == "diagnostics"
AfterInvoke(exc) == IF exc = NoExc THEN "done" ELSE "diagnostics"

\* lines 75-103
TryInvokeModel ==
    /\ pc = "invoke"
    /\ \E o \in InvokeOutcomes :
        LET h == IF o.kind = "raise" THEN [out |-> <<>>, exc |-> o.exc]
                 ELSE HandleBody(o.body)
        IN
        /\ invokeOut' = o
        /\ calls' = Append(calls, Call("invoke_model", region, arn))
        /\ stdout' = stdout \o <<MSG_TRY_INVOKE>> \o h.out
        /\ stderr' = stderr \o
                (IF h.exc = NoExc THEN <<>>
                 ELSE IF h.exc = ClientError THEN <<ERR_INVOKE_FAILED, ExcStr(h.exc)>>
                 ELSE <<ERR_INVOKE_ERROR, ExcRepr(h.exc)>>)
        /\ pc' = AfterInvoke(h.exc)
        /\ exitCode' = IF AfterInvoke(h.exc) = "done" THEN 0 ELSE exitCode
    /\ UNCHANGED <<env, arn, region, clients, verifyOut, converseOut, stsOut>>

\* ------------------------------------------------- step 5: diagnostics
StsOutcomes == {[kind |-> "ok", exc |-> NoExc]}
               \cup {[kind |-> "raise", exc |-> e] : e \in RemoteErrors}

StsSwallowsClientErrorOnly(e) == e = ClientError
\* lines 110-111: except Exception: pass
StsSwallows(e) == TRUE

\* lines 105-113
Diagnostics ==
    /\ pc = "diagnostics"
    /\ \E o \in StsOutcomes :
        /\ stsOut' = o
        /\ clients' = clients \cup {[svc |-> "sts", region |-> region]}
        /\ calls' = Append(calls, Call("get_caller_identity", region, arn))
        /\ stdout' = IF o.kind = "ok" THEN Append(stdout, JsonIdentity(region, arn)) ELSE stdout
        /\ stderr' = stderr \o <<BANNER>> \o
                (IF o.kind = "raise" /\ ~StsSwallows(o.exc) THEN <<Traceback(o.exc)>>
                 ELSE <<CHECKLIST>>)
        /\ exitCode' = 1
        /\ pc' = "done"
    /\ UNCHANGED <<env, arn, region, verifyOut, converseOut, invokeOut>>

Next == FailFast \/ Configure \/ VerifyProfile \/ TryConverse
        \/ TryInvokeModel \/ Diagnostics

Spec == Init /\ [][Next]_vars

\* ======================================================== properties
Called(op) == \E i \in 1..Len(calls) : calls[i].op = op
CountCalls(op) == Cardinality({i \in 1..Len(calls) : calls[i].op = op})
Printed(item, stream) == \E i \in 1..Len(stream) : stream[i] = item
HasToken(item, tok) == \E i \in 1..Len(item.line) : item.line[i] = tok
ArnSet == Truthy(PyOr(env.BEDROCK_INFERENCE_PROFILE_ARN, env.INFERENCE_PROFILE_ARN))
TextItemsOf(stream) == SelectSeq(stream, LAMBDA it : it.data.t = "text")
Crashed == \E i \in 1..Len(stderr) : stderr[i].data.t = "traceback"

\* C1: when neither BEDROCK_INFERENCE_PROFILE_ARN nor INFERENCE_PROFILE_ARN
\* holds a non-empty value, main goes from the start straight to its end with
\* exit code 2, an error line naming BEDROCK_INFERENCE_PROFILE_ARN is on
\* stderr, and no remote call is ever made.
C1_FailFastNoRemoteCall ==
    (~Truthy(env.BEDROCK_INFERENCE_PROFILE_ARN) /\ ~Truthy(env.INFERENCE_PROFILE_ARN)) =>
        /\ calls = <<>>
        /\ clients = {}
        /\ pc \in {"start", "done"}
        /\ pc = "done" =>
            /\ exitCode = 2
            /\ \E i \in 1..Len(stderr) :
                /\ stderr[i].line[1] = "ERROR: "
                /\ HasToken(stderr[i], "BEDROCK_INFERENCE_PROFILE_ARN")

C1_Witness ==
    /\ pc = "done" /\ exitCode = 2
    /\ env.BEDROCK_INFERENCE_PROFILE_ARN = "" /\ env.INFERENCE_PROFILE_ARN = None

ConverseStepFailed == Printed(ERR_CONVERSE_FAILED, stderr) \/ Printed(ERR_CONVERSE_ERROR, stderr)
InvokeStepFailed == Printed(ERR_INVOKE_FAILED, stderr) \/ Printed(ERR_INVOKE_ERROR, stderr)
ConverseProducedOutput ==
    Printed(MSG_TRY_CONVERSE, stdout) /\ ~ConverseStepFailed
    /\ \E i \in 1..Len(stdout) : stdout[i].data.t \in {"text", "json_response"}
InvokeProducedOutput ==
    Printed(MSG_INVOKE, stdout) /\ ~InvokeStepFailed
    /\ \E i \in 1..Len(stdout) : stdout[i].data.t = "text"

\* C2: every run ends with exit code 0, 1 or 2; 0 only if converse or
\* invoke_model produced output, 1 only if both were attempted, both failed and
\* the terminal diagnostics ran, 2 only if the identifier was missing.
C2_ExitCodes ==
    pc = "done" =>
        /\ exitCode \in {0, 1, 2}
        /\ exitCode = 0 => (ConverseProducedOutput \/ InvokeProducedOutput)
        /\ exitCode = 1 =>
            /\ Called("converse") /\ ConverseStepFailed
            /\ Called("invoke_model") /\ InvokeStepFailed
            /\ Printed(BANNER, stderr) /\ Printed(CHECKLIST, stderr)
        /\ exitCode = 2 => ~ArnSet

\* C3: no error of a remote call leaves main, and when the identifier is set
\* the converse attempt is made after a failed verification, whether the
\* failure is a ClientError or any other exception.
C3_VerifyFailureNonFatal ==
    /\ ~Crashed
    /\ (pc = "done" /\ ArnSet /\ verifyOut.kind = "raise") => Called("converse")

\* the text segments of a content list, in list order, and their join
StrSegs(c) == SelectSeq(c, LAMBDA p : p.k = "str")
RECURSIVE JoinFirst(_, _)
JoinFirst(ts, n) ==
    IF n = 0 THEN <<>>
    ELSE IF n = 1 THEN ts[1].v
    ELSE JoinFirst(ts, n - 1) \o <<10>> \o ts[n].v
ExpectedText(c) == JoinFirst(StrSegs(c), Len(StrSegs(c)))
\* the response is handled without an exception: the message is not null and
\* every "text" value is a string
WellShaped(r) ==
    /\ r.messageKind # "null"
    /\ \A i \in 1..Len(r.content) : r.content[i].k # "num"

C4_Conclusion ==
    /\ pc = "done" /\ exitCode = 0
    /\ ~Called("invoke_model") /\ ~Called("get_caller_identity")
    /\ IF StrSegs(converseOut.resp.content) # <<>>
       THEN /\ TextItemsOf(stdout) = <<TextItem(ExpectedText(converseOut.resp.content))>>
            /\ ~Printed(JsonResp(converseOut.resp), stdout)
       ELSE /\ TextItemsOf(stdout) = <<>>
            /\ Printed(JsonResp(converseOut.resp), stdout)

RECURSIVE EncodeUtf8(_)
EncodeUtf8(t) ==
    IF t = <<>> THEN <<>>
    ELSE (IF Head(t) < 128 THEN <<Head(t)>>
          ELSE <<192 + (Head(t) \div 64), 128 + (Head(t) % 64)>>) \o EncodeUtf8(Tail(t))

\* the payload is bytes, a string, or a stream whose read() yields one of them
PayloadReturned ==
    /\ invokeOut.kind = "return"
    /\ invokeOut.body.kind \in {"raw", "stream"}
    /\ invokeOut.body.readExc = NoExc
\* ... and its bytes, if it is bytes, are the UTF-8 encoding of some text
PayloadDecodable ==
    /\ PayloadReturned
    /\ invokeOut.body.data.ty = "bytes" =>
        \E t \in BSeq(CharValues, Len(invokeOut.body.data.v)) :
            EncodeUtf8(t) = invokeOut.body.data.v

\* the one text printed on stdout is the payload's text
PrintedPayloadVerbatim ==
    /\ Len(TextItemsOf(stdout)) = 1
    /\ LET t == TextItemsOf(stdout)[1].data.text IN
         IF invokeOut.body.data.ty = "bytes" THEN EncodeUtf8(t) = invokeOut.body.data.v
         ELSE t = invokeOut.body.data.v

C5_Conclusion ==
    /\ pc = "done" /\ exitCode = 0
    /\ Printed(MSG_INVOKE, stdout) /\ PrintedPayloadVerbatim
    /\ ~Printed(BANNER, stderr) /\ ~Printed(BANNER, stdout)
    /\ ~Printed(CHECKLIST, stderr) /\ ~Printed(CHECKLIST, stdout)
    /\ ~Called("get_caller_identity")

\* C5 as stated: whenever the converse call fails and invoke_model returns a
\* payload (stream, bytes or string), main exits 0, prints the decoded payload
\* verbatim on stdout, prints neither banner nor checklist and never calls
\* get_caller_identity.
C5_Original == (converseOut.kind = "raise" /\ PayloadReturned) => C5_Conclusion

\* C5 amended: the same, for a payload that is a string or valid UTF-8 bytes.
C5_FallbackOutput == (converseOut.kind = "raise" /\ PayloadDecodable) => C5_Conclusion

C5_Witness ==
    /\ pc = "done" /\ converseOut.kind = "raise" /\ converseOut.exc = BotoCoreError
    /\ invokeOut.kind = "return" /\ invokeOut.body.kind = "stream"
    /\ invokeOut.body.data = [ty |-> "bytes", v |-> <<195, 169>>]
    /\ TextItemsOf(stdout) = <<TextItem(<<233>>)>>

\* C6: whenever the converse call and the invoke_model call both raise, main
\* goes on to the diagnostics and ends with exit code 1 and with the banner
\* followed by the checklist as the last two items on stderr, whether
\* get_caller_identity succeeds or raises.
C6_BothFailed ==
    (converseOut.kind = "raise" /\ invokeOut.kind = "raise") =>
        /\ pc \in {"diagnostics", "done"}
        /\ pc = "done" =>
            /\ exitCode = 1
            /\ Len(stderr) >= 2
            /\ stderr[Len(stderr) - 1] = BANNER
            /\ stderr[Len(stderr)] = CHECKLIST
            /\ ~Crashed

C6_Witness ==
    /\ pc = "done" /\ exitCode = 1
    /\ converseOut.kind = "raise" /\ invokeOut.kind = "raise"
    /\ stsOut.kind = "raise" /\ stsOut.exc = BotoCoreError
    /\ Printed(CHECKLIST, stderr)

\* the warning lines that contain the default region's name, on either stream
IsRegionWarning(it) ==
    /\ it.line # <<>>
    /\ it.line[1] \in {"WARNING: ", "WARN: "}
    /\ HasToken(it, "us-east-1")
RegionWarnings == Len(SelectSeq(stdout \o stderr, IsRegionWarning))

C7_Conclusion ==
    IF ~Truthy(env.region_name)
    THEN /\ RegionWarnings = 1
         /\ \A c \in clients : c.region = "us-east-1"
    ELSE /\ RegionWarnings = 0
         /\ \A c \in clients : c.region = env.region_name

\* C7 as stated: every run with no ambient region emits exactly one warning
\* line containing us-east-1 and creates its clients in us-east-1; a run with
\* an ambient region emits no such warning and uses the ambient region.
C7_Original == pc = "done" => C7_Conclusion

\* C7 amended: the same, for the runs where the identifier is set (a run
\* without identifier ends before the region is resolved), from the moment the
\* configuration is resolved.
C7_RegionDefault == (ArnSet /\ pc # "start") => (C7_Conclusion /\ Cardinality(clients) >= 2)

C7_Witness ==
    /\ pc = "done" /\ env.region_name = None /\ ArnSet
    /\ RegionWarnings = 1
    /\ [svc |-> "sts", region |-> "us-east-1"] \in clients

\* informational and success content
IsInformational(it) ==
    \/ it \in {MSG_VERIFIED, MSG_SKIP, MSG_TRY_CONVERSE, MSG_CONVERSE, MSG_TRY_INVOKE, MSG_INVOKE}
    \/ it.data.t \in {"text", "json_response", "json_profile"}

\* C8: only informational and success content is written to stdout, and every
\* warning, error and diagnostic, the caller identity dump included, is
\* written to stderr.
C8_Streams ==
    /\ \A i \in 1..Len(stdout) : IsInformational(stdout[i])
    /\ \A i \in 1..Len(stderr) : ~IsInformational(stderr[i])

Rank(op) == CASE op = "get_inference_profile" -> 1
              [] op = "converse" -> 2
              [] op = "invoke_model" -> 3
              [] op = "get_caller_identity" -> 4
VerificationAborted == verifyOut.kind = "raise" /\ Crashed

\* C10: the remote calls happen in the order get_inference_profile, converse,
\* invoke_model, get_caller_identity, each at most once; converse is called
\* exactly once in every finished run that has an identifier and got past the
\* verification; get_caller_identity is called only after converse and
\* invoke_model were both attempted and both failed.
C10_CallOrder ==
    /\ \A i, j \in 1..Len(calls) : i < j => Rank(calls[i].op) < Rank(calls[j].op)
    /\ (pc = "done" /\ ArnSet /\ ~VerificationAborted) => CountCalls("converse") = 1
    /\ Called("get_caller_identity") =>
        /\ Called("converse") /\ ConverseStepFailed
        /\ Called("invoke_model") /\ InvokeStepFailed

C10_Witness ==
    /\ pc = "done"
    /\ Len(calls) = 4
    /\ calls[4].op = "get_caller_identity"
====
